---- MODULE Spec2Model ----
(***************************************************************************)
(* The falling-sand cave of rust/src/bin/day14.rs: the rasterizer          *)
(* (Cave::from_scan), the simulator (Cave::free, Cave::pour_sand,          *)
(* Cave::with_floor) and the driver (solve).                               *)
(*                                                                         *)
(* Spec      solve() run on a scan: from_scan, the open run, with_floor,   *)
(*           the floored run.  A grain's fall is one step per iteration of *)
(*           pour_sand's loop.                                             *)
(* SpecScan  from_scan alone, applied to every scan of a bounded family    *)
(*           (single points, diagonals, repeated and overlapping segments).*)
(* SpecMain  main() run on a text: read_input, then solve on the parsed    *)
(*           paths, or the error main returns.                             *)
(***************************************************************************)
EXTENDS Integers, Sequences, FiniteSets

VARIABLES
    text,          \* the input file's content, a sequence of characters
    scan,          \* solve's input: a sequence of Paths (sequences of Pos)
    pc,            \* where main and solve are: "input", "error",
                   \*   "from_scan", "run_a", "falling", "with_floor",
                   \*   "run_b", "done", "panic"
    rocks,         \* Cave.rocks
    rocks_max_y,   \* Cave.rocks_max_y
    sand,          \* Cave.sand
    floor_y,       \* Cave.floor_y: {} is None, {fy} is Some(fy)
    sand_pos,      \* pour_sand's local sand_pos
    ret,           \* what the last pour_sand call returned
    p1,            \* solve's p1
    p2             \* solve's p2

vars == <<text, scan, pc, rocks, rocks_max_y, sand, floor_y, sand_pos, ret, p1, p2>>

(***************************************************************************)
(* Bounds of the checked inputs                                            *)
(***************************************************************************)
\* rocks of the bounded inputs lie in rows SourceY - FloorOffset .. MaxY
MaxY == 2
\* a bounded rock layout has at most MaxRocks cells
MaxRocks == 3
\* a bounded scan lists at most MaxPoints points over all its polylines
MaxPoints == 3
\* a bounded text has at most MaxChars characters
MaxChars == 7

(***************************************************************************)
(* Program constants                                                       *)
(***************************************************************************)
SourceX == 500
SourceY == 0
FloorOffset == 2
\* the largest i32, the type of Pos.x and Pos.y
I32Max == 2147483647

Pos(x, y) == [x |-> x, y |-> y]

Source == Pos(SourceX, SourceY)

\* Pos::translate
translate(pos, dx, dy) == Pos(pos.x + dx, pos.y + dy)

(***************************************************************************)
(* Cave::from_scan                                                         *)
(***************************************************************************)
\* mutant: the half-open range a..b of Rust
RangeExclusive(a, b) == a..(b - 1)

\* a..=b of Rust: empty when a > b
RangeInclusive(a, b) == a..b

\* the arm (_dx, 0): the cells of row pos.y between the two x, normalised
HorizontalCells(pos, r) ==
    LET sx == IF pos.x > r.x THEN r.x ELSE pos.x
        ex == IF pos.x > r.x THEN pos.x ELSE r.x
    IN  {Pos(x, pos.y) : x \in RangeInclusive(sx, ex)}

\* the arm (0, _dy): the cells of column pos.x between the two y, normalised
VerticalCells(pos, r) ==
    LET sy == IF pos.y > r.y THEN r.y ELSE pos.y
        ey == IF pos.y > r.y THEN pos.y ELSE r.y
    IN  {Pos(pos.x, y) : y \in RangeInclusive(sy, ey)}

\* mutant: the second arm written (_dx, _dy), so that it takes every segment
\* off the row and the third arm is never reached
SegmentCellsAnyColumn(pos, r) ==
    IF pos.y - r.y = 0 THEN [panic |-> FALSE, cells |-> HorizontalCells(pos, r)]
    ELSE [panic |-> FALSE, cells |-> VerticalCells(pos, r)]

\* the match on (pos.x - r.x, pos.y - r.y); the third arm is unreachable!()
SegmentCells(pos, r) ==
    IF pos.y - r.y = 0 THEN [panic |-> FALSE, cells |-> HorizontalCells(pos, r)]
    ELSE IF pos.x - r.x = 0 THEN [panic |-> FALSE, cells |-> VerticalCells(pos, r)]
    ELSE [panic |-> TRUE, cells |-> {}]

\* pos = r.clone() at the end of the inner loop's body
NextPos(pos, r) == r

\* the inner loop over rs.iter().skip(1), from index i with the current pos
RECURSIVE WalkPath(_, _, _, _)
WalkPath(rs, i, pos, acc) ==
    IF i > Len(rs) THEN [panic |-> FALSE, cells |-> acc]
    ELSE LET seg == SegmentCells(pos, rs[i])
         IN  IF seg.panic THEN [panic |-> TRUE, cells |-> acc]
             ELSE WalkPath(rs, i + 1, NextPos(pos, rs[i]), acc \cup seg.cells)

\* one Path: rs[0] panics on an empty Vec
PathCells(rs, acc) ==
    IF Len(rs) = 0 THEN [panic |-> TRUE, cells |-> acc]
    ELSE WalkPath(rs, 2, rs[1], acc)

\* the outer loop over the scan's paths, from index k
RECURSIVE WalkScan(_, _, _)
WalkScan(s, k, acc) ==
    IF k > Len(s) THEN [panic |-> FALSE, cells |-> acc]
    ELSE LET path == PathCells(s[k], acc)
         IN  IF path.panic THEN path ELSE WalkScan(s, k + 1, path.cells)

\* rocks.iter().map(|r| r.y).max(): the set is non-empty where this is used
MaxRockY(cells) == CHOOSE m \in {c.y : c \in cells} : \A c \in cells : c.y <= m

\* from_scan: the Cave it returns, or panic (unreachable!(), rs[0] on an empty
\* path, unwrap() of the max of an empty rock set) with the local rocks as
\* they were when it panicked
from_scan(s) ==
    LET walked == WalkScan(s, 1, {})
    IN  IF walked.panic \/ walked.cells = {}
        THEN [panic |-> TRUE, rocks |-> walked.cells, rocks_max_y |-> 0]
        ELSE [panic |-> FALSE, rocks |-> walked.cells,
              rocks_max_y |-> MaxRockY(walked.cells)]

(***************************************************************************)
(* Cave::with_floor, Cave::free                                            *)
(***************************************************************************)
\* mutant: the floor one row too high
FloorOneAbove(max_y) == {max_y + 1}

\* with_floor's floor_y = Some(self.rocks_max_y + 2)
FloorFor(max_y) == {max_y + FloorOffset}

\* mutant: with_floor builds a new, empty sand set
FreshSand(s) == {}

\* with_floor's ..self for the sand set
KeptSand(s) == s

\* mutant: free() looks at the rocks and the floor only
free_of_rocks(pos) ==
    /\ pos \notin rocks
    /\ \A fy \in floor_y : fy # pos.y

\* mutant: free() takes every row from the floor down for floor
free_above_floor(pos) ==
    /\ ~(pos \in sand \/ pos \in rocks)
    /\ \A fy \in floor_y : pos.y < fy

\* free(&self, pos)
free(pos) ==
    /\ ~(pos \in sand \/ pos \in rocks)
    /\ \A fy \in floor_y : fy # pos.y

\* mutant: the open threshold one row below the lowest rock
max_y_with_margin ==
    IF floor_y = {} THEN rocks_max_y + 1 ELSE CHOOSE fy \in floor_y : TRUE

\* pour_sand's max_y = self.floor_y.unwrap_or(self.rocks_max_y)
max_y == IF floor_y = {} THEN rocks_max_y ELSE CHOOSE fy \in floor_y : TRUE

(***************************************************************************)
(* The inputs                                                              *)
(***************************************************************************)
\* the scan of the tests: 498,4 -> 498,6 -> 496,6 and
\* 503,4 -> 502,4 -> 502,9 -> 494,9
ExampleScan ==
    << <<Pos(498, 4), Pos(498, 6), Pos(496, 6)>>,
       <<Pos(503, 4), Pos(502, 4), Pos(502, 9), Pos(494, 9)>> >>

\* columns of the bounded inputs: the source's and the two a grain can step to
Xs == (SourceX - 1)..(SourceX + 1)
\* rows of the bounded inputs: from the row that puts the floor on the
\* source's row down to MaxY
Ys == (SourceY - FloorOffset)..MaxY

Points == {Pos(x, y) : x \in Xs, y \in Ys}

\* the points pts cut into paths: a path ends at each index of cuts and at
\* the last point
RECURSIVE SplitAt(_, _, _)
SplitAt(pts, cuts, i) ==
    IF i > Len(pts) THEN << >>
    ELSE LET j == CHOOSE j \in i..Len(pts) :
                      /\ j \in cuts \/ j = Len(pts)
                      /\ \A m \in i..(j - 1) : m \notin cuts
         IN  <<SubSeq(pts, i, j)>> \o SplitAt(pts, cuts, j + 1)

\* a scan with at most MaxPoints points in all: the empty scan, single-point
\* paths, diagonal, repeated and overlapping segments included
IsBoundedScan(s) ==
    \E n \in 0..MaxPoints : \E pts \in [1..n -> Points] :
        \E cuts \in SUBSET (1..(n - 1)) : s = SplitAt(pts, cuts, 1)

\* a rock layout written as a scan: one path "c -> c" per cell
RECURSIVE ScanOfCells(_)
ScanOfCells(cells) ==
    IF cells = {} THEN << >>
    ELSE LET c == CHOOSE c \in cells : TRUE
         IN  <<(<<c, c>>)>> \o ScanOfCells(cells \ {c})

\* the sets of at most k cells of Points
RECURSIVE CellSets(_)
CellSets(k) ==
    IF k = 0 THEN {{}}
    ELSE LET smaller == CellSets(k - 1)
         IN  smaller \cup {R \cup {c} : R \in smaller, c \in Points}

RockLayouts == CellSets(MaxRocks) \ {{}}

SolveScans == {ExampleScan} \cup {ScanOfCells(R) : R \in RockLayouts}

(***************************************************************************)
(* solve                                                                   *)
(***************************************************************************)
NoCave ==
    /\ rocks = {}
    /\ rocks_max_y = 0
    /\ sand = {}
    /\ floor_y = {}
    /\ sand_pos = Source
    /\ ret = FALSE
    /\ p1 = 0
    /\ p2 = 0

Init ==
    /\ text = << >>
    /\ scan \in SolveScans
    /\ pc = "from_scan"
    /\ NoCave

InitScan ==
    /\ text = << >>
    /\ IsBoundedScan(scan)
    /\ pc = "from_scan"
    /\ NoCave

\* let mut cave = Cave::from_scan(input)
FromScan ==
    /\ pc = "from_scan"
    /\ LET cave == from_scan(scan)
       IN  IF cave.panic
           THEN /\ pc' = "panic"
                /\ rocks' = cave.rocks
                /\ UNCHANGED rocks_max_y
           ELSE /\ pc' = "run_a"
                /\ rocks' = cave.rocks
                /\ rocks_max_y' = cave.rocks_max_y
    /\ sand' = {}
    /\ floor_y' = {}
    /\ UNCHANGED <<text, scan, sand_pos, ret, p1, p2>>

\* mutant: the settled grain replaces the sand set
InsertAlone(s, pos) == {pos}

\* self.sand.insert(sand_pos)
Insert(s, pos) == s \cup {pos}

\* mutant: the cell of a lost grain is inserted too
ReturnKeepingLostGrain(at_rest, pos) ==
    /\ sand' = IF pos # Source THEN Insert(sand, pos) ELSE sand
    /\ sand_pos' = pos
    /\ ret' = at_rest
    /\ IF at_rest
       THEN /\ pc' = IF floor_y = {} THEN "run_a" ELSE "run_b"
            /\ UNCHANGED <<p1, p2>>
       ELSE IF floor_y = {}
            THEN /\ pc' = "with_floor"
                 /\ p1' = Cardinality(sand')
                 /\ p2' = p2
            ELSE /\ pc' = "done"
                 /\ p2' = Cardinality(sand')
                 /\ p1' = p1
    /\ UNCHANGED <<text, scan, rocks, rocks_max_y, floor_y>>

\* mutant: settled sand is recorded among the rocks
ReturnIntoRocks(at_rest, pos) ==
    /\ sand' = IF at_rest THEN Insert(sand, pos) ELSE sand
    /\ rocks' = IF at_rest THEN Insert(rocks, pos) ELSE rocks
    /\ sand_pos' = pos
    /\ ret' = at_rest
    /\ IF at_rest
       THEN /\ pc' = IF floor_y = {} THEN "run_a" ELSE "run_b"
            /\ UNCHANGED <<p1, p2>>
       ELSE IF floor_y = {}
            THEN /\ pc' = "with_floor"
                 /\ p1' = Cardinality(sand')
                 /\ p2' = p2
            ELSE /\ pc' = "done"
                 /\ p2' = Cardinality(sand')
                 /\ p1' = p1
    /\ UNCHANGED <<text, scan, rocks_max_y, floor_y>>

\* mutant: the count leaves out the grain that rests on the source
ReturnNotCountingBlocker(at_rest, pos) ==
    /\ sand' = IF at_rest THEN Insert(sand, pos) ELSE sand
    /\ sand_pos' = pos
    /\ ret' = at_rest
    /\ IF at_rest
       THEN /\ pc' = IF floor_y = {} THEN "run_a" ELSE "run_b"
            /\ UNCHANGED <<p1, p2>>
       ELSE IF floor_y = {}
            THEN /\ pc' = "with_floor"
                 /\ p1' = Cardinality(sand')
                 /\ p2' = p2
            ELSE /\ pc' = "done"
                 /\ p2' = Cardinality(sand') - 1
                 /\ p1' = p1
    /\ UNCHANGED <<text, scan, rocks, rocks_max_y, floor_y>>

\* mutant: the floored count leaves out the grains of the open run
ReturnCountingFloored(at_rest, pos) ==
    /\ sand' = IF at_rest THEN Insert(sand, pos) ELSE sand
    /\ sand_pos' = pos
    /\ ret' = at_rest
    /\ IF at_rest
       THEN /\ pc' = IF floor_y = {} THEN "run_a" ELSE "run_b"
            /\ UNCHANGED <<p1, p2>>
       ELSE IF floor_y = {}
            THEN /\ pc' = "with_floor"
                 /\ p1' = Cardinality(sand')
                 /\ p2' = p2
            ELSE /\ pc' = "done"
                 /\ p2' = Cardinality(sand') - p1
                 /\ p1' = p1
    /\ UNCHANGED <<text, scan, rocks, rocks_max_y, floor_y>>

\* pour_sand returns at_rest with the grain at pos; solve's loop breaks with
\* cave.sand.len() when the call returned false
Return(at_rest, pos) ==
    /\ sand' = IF at_rest THEN Insert(sand, pos) ELSE sand
    /\ sand_pos' = pos
    /\ ret' = at_rest
    /\ IF at_rest
       THEN /\ pc' = IF floor_y = {} THEN "run_a" ELSE "run_b"
            /\ UNCHANGED <<p1, p2>>
       ELSE IF floor_y = {}
            THEN /\ pc' = "with_floor"
                 /\ p1' = Cardinality(sand')
                 /\ p2' = p2
            ELSE /\ pc' = "done"
                 /\ p2' = Cardinality(sand')
                 /\ p1' = p1
    /\ UNCHANGED <<text, scan, rocks, rocks_max_y, floor_y>>

\* mutant: pour_sand without the test of the source
PourStartUnchecked ==
    /\ pc \in {"run_a", "run_b"}
    /\ sand_pos' = Source
    /\ pc' = "falling"
    /\ UNCHANGED <<text, scan, rocks, rocks_max_y, sand, floor_y, ret, p1, p2>>

\* cave.pour_sand() is called: the grain starts at the source, and the call
\* returns false at once when the source holds sand
PourStart ==
    /\ pc \in {"run_a", "run_b"}
    /\ IF Source \in sand
       THEN Return(FALSE, Source)
       ELSE /\ sand_pos' = Source
            /\ pc' = "falling"
            /\ UNCHANGED <<text, scan, rocks, rocks_max_y, sand, floor_y, ret, p1, p2>>

\* mutant: a grain that goes on falling drops one row more
ContinueTwoRows(pos) ==
    /\ sand_pos' = translate(pos, 0, 1)
    /\ UNCHANGED <<text, scan, pc, rocks, rocks_max_y, sand, floor_y, ret, p1, p2>>

\* the grain goes on falling from pos
Continue(pos) ==
    /\ sand_pos' = pos
    /\ UNCHANGED <<text, scan, pc, rocks, rocks_max_y, sand, floor_y, ret, p1, p2>>

\* mutant: down-right is tried before down-left
FallRightFirst ==
    /\ pc = "falling"
    /\ LET down  == translate(sand_pos, 0, 1)
           right == translate(down, 1, 0)
           left  == translate(right, -2, 0)
           back  == translate(left, 1, -1)
       IN  IF down.y > max_y THEN Return(floor_y # {}, down)
           ELSE IF free(down) THEN Continue(down)
           ELSE IF free(right) THEN Continue(right)
           ELSE IF free(left) THEN Continue(left)
           ELSE Return(TRUE, back)

\* mutant: the grain never tries down-right
FallNoRight ==
    /\ pc = "falling"
    /\ LET down  == translate(sand_pos, 0, 1)
           left  == translate(down, -1, 0)
           back  == translate(down, 0, -1)
       IN  IF down.y > max_y THEN Return(floor_y # {}, down)
           ELSE IF free(down) THEN Continue(down)
           ELSE IF free(left) THEN Continue(left)
           ELSE Return(TRUE, back)

\* mutant: the grain slides two columns aside
FallTwoColumns ==
    /\ pc = "falling"
    /\ LET down  == translate(sand_pos, 0, 1)
           left  == translate(down, -2, 0)
           right == translate(left, 4, 0)
           back  == translate(right, -2, -1)
       IN  IF down.y > max_y THEN Return(floor_y # {}, down)
           ELSE IF free(down) THEN Continue(down)
           ELSE IF free(left) THEN Continue(left)
           ELSE IF free(right) THEN Continue(right)
           ELSE Return(TRUE, back)

\* mutant: a grain with no free candidate is given up
FallLostAtRest ==
    /\ pc = "falling"
    /\ LET down  == translate(sand_pos, 0, 1)
           left  == translate(down, -1, 0)
           right == translate(left, 2, 0)
           back  == translate(right, -1, -1)
       IN  IF down.y > max_y THEN Return(floor_y # {}, down)
           ELSE IF free(down) THEN Continue(down)
           ELSE IF free(left) THEN Continue(left)
           ELSE IF free(right) THEN Continue(right)
           ELSE Return(FALSE, back)

\* one iteration of pour_sand's loop
Fall ==
    /\ pc = "falling"
    /\ LET down  == translate(sand_pos, 0, 1)
           left  == translate(down, -1, 0)
           right == translate(left, 2, 0)
           back  == translate(right, -1, -1)
       IN  IF down.y > max_y THEN Return(floor_y # {}, down)
           ELSE IF free(down) THEN Continue(down)
           ELSE IF free(left) THEN Continue(left)
           ELSE IF free(right) THEN Continue(right)
           ELSE Return(TRUE, back)

\* let mut cave = cave.with_floor()
WithFloor ==
    /\ pc = "with_floor"
    /\ floor_y' = FloorFor(rocks_max_y)
    /\ sand' = KeptSand(sand)
    /\ pc' = "run_b"
    /\ UNCHANGED <<text, scan, rocks, rocks_max_y, sand_pos, ret, p1, p2>>

Next == FromScan \/ PourStart \/ Fall \/ WithFloor

Spec == Init /\ [][Next]_vars

\* solve runs on: a step that can be taken is taken
SpecFair == Init /\ [][Next]_vars /\ WF_vars(Next)

NextScan == FromScan

SpecScan == InitScan /\ [][NextScan]_vars

(***************************************************************************)
(* pour_sand and solve's loops as functions of the cave                    *)
(***************************************************************************)
\* pour_sand's loop for a grain at pos, in the cave with the sand set s and
\* the floor f: whether the grain came to rest, and where the loop left it
RECURSIVE pour_loop(_, _, _)
pour_loop(pos, s, f) ==
    LET max_y_f == IF f = {} THEN rocks_max_y ELSE CHOOSE fy \in f : TRUE
        free_f(c) == ~(c \in s \/ c \in rocks) /\ \A fy \in f : fy # c.y
        down  == translate(pos, 0, 1)
        left  == translate(down, -1, 0)
        right == translate(left, 2, 0)
        back  == translate(right, -1, -1)
    IN  IF down.y > max_y_f THEN [at_rest |-> f # {}, pos |-> down]
        ELSE IF free_f(down) THEN pour_loop(down, s, f)
        ELSE IF free_f(left) THEN pour_loop(left, s, f)
        ELSE IF free_f(right) THEN pour_loop(right, s, f)
        ELSE [at_rest |-> TRUE, pos |-> back]

\* pour_sand as a function of the sand set s and the floor f: what it
\* returns, the sand set it leaves, and where it left the grain
pour_sand(s, f) ==
    IF Source \in s THEN [ret |-> FALSE, sand |-> s, pos |-> Source]
    ELSE LET grain == pour_loop(Source, s, f)
         IN  [ret |-> grain.at_rest,
              sand |-> IF grain.at_rest THEN Insert(s, grain.pos) ELSE s,
              pos |-> grain.pos]

\* the sand set after n calls of cave.pour_sand() in a row under the floor
\* f, as solve's loops make them, starting from the sand set s; the calls
\* are made as the first half and then the second half, and calls made with
\* sand on the source return at once
RECURSIVE pour_calls(_, _, _)
pour_calls(s, f, n) ==
    IF n = 0 THEN s
    ELSE IF n = 1 THEN pour_sand(s, f).sand
    ELSE LET half == pour_calls(s, f, n \div 2)
         IN  IF Source \in half THEN half
             ELSE pour_calls(half, f, n - (n \div 2))

(***************************************************************************)
(* Pos::from_str, Path::from_str, read_input, main                         *)
(***************************************************************************)
\* the separator of Path::from_str, taken as one character of the text
Arrow == " -> "

\* the characters of the bounded texts
Chars == {"1", "-", ",", Arrow, "\n"}

Digits == <<"0", "1", "2", "3", "4", "5", "6", "7", "8", "9">>

IsDigit(c) == \E d \in 1..Len(Digits) : Digits[d] = c

DigitValue(c) == (CHOOSE d \in 1..Len(Digits) : Digits[d] = c) - 1

\* Result: Ok(v), Err(e)
Ok(v) == [ok |-> TRUE, val |-> v]
Err(e) == [ok |-> FALSE, err |-> e]

\* str::split(sep) from index i on, cur being the field read so far: one
\* field more than there are separators
RECURSIVE SplitFrom(_, _, _, _)
SplitFrom(s, sep, i, cur) ==
    IF i > Len(s) THEN <<cur>>
    ELSE IF s[i] = sep THEN <<cur>> \o SplitFrom(s, sep, i + 1, << >>)
    ELSE SplitFrom(s, sep, i + 1, Append(cur, s[i]))

split(s, sep) == SplitFrom(s, sep, 1, << >>)

\* the digits of str::parse::<i32>() from index i on: a character that is no
\* digit and a value outside i32 are errors
RECURSIVE ParseDigits(_, _, _, _)
ParseDigits(f, i, neg, acc) ==
    IF i > Len(f) THEN Ok(acc)
    ELSE IF ~IsDigit(f[i]) THEN Err("ParseIntError")
    ELSE LET d == DigitValue(f[i])
             limit == (I32Max - d + (IF neg /\ d >= 1 THEN 1 ELSE 0)) \div 10
         IN  IF (IF neg THEN -acc ELSE acc) > limit THEN Err("ParseIntError")
             ELSE ParseDigits(f, i + 1, neg,
                              IF neg THEN acc * 10 - d ELSE acc * 10 + d)

\* mutant: a field that is no integer reads as zero
parse_i32_or_zero(f) ==
    IF f = << >> THEN Ok(0)
    ELSE LET start == IF f[1] \in {"-", "+"} THEN 2 ELSE 1
             r == ParseDigits(f, start, f[1] = "-", 0)
         IN  IF start > Len(f) THEN Ok(0)
             ELSE IF r.ok THEN r ELSE Ok(0)

\* str::parse::<i32>(): an optional sign, then one digit or more
parse_i32(f) ==
    IF f = << >> THEN Err("ParseIntError")
    ELSE LET start == IF f[1] \in {"-", "+"} THEN 2 ELSE 1
         IN  IF start > Len(f) THEN Err("ParseIntError")
             ELSE ParseDigits(f, start, f[1] = "-", 0)

\* <Pos as FromStr>::from_str
Pos_from_str(s) ==
    LET parts == split(s, ",")
    IN  IF Len(parts) < 1 THEN Err("No x")
        ELSE LET x == parse_i32(parts[1])
             IN  IF ~x.ok THEN x
                 ELSE IF Len(parts) < 2 THEN Err("No y")
                 ELSE LET y == parse_i32(parts[2])
                      IN  IF ~y.ok THEN y ELSE Ok(Pos(x.val, y.val))

\* .map(|p| p.parse::<Pos>()).collect::<Result<_>>(): the first error, or
\* all the values
RECURSIVE CollectPos(_, _, _)
CollectPos(parts, i, acc) ==
    IF i > Len(parts) THEN Ok(acc)
    ELSE LET p == Pos_from_str(parts[i])
         IN  IF p.ok THEN CollectPos(parts, i + 1, Append(acc, p.val)) ELSE p

\* <Path as FromStr>::from_str
Path_from_str(s) == CollectPos(split(s, Arrow), 1, << >>)

\* BufRead::lines(): the text cut at each newline; a newline at the end of
\* the text starts no line
lines(t) ==
    LET fields == split(t, "\n")
    IN  IF fields[Len(fields)] = << >> THEN SubSeq(fields, 1, Len(fields) - 1)
        ELSE fields

\* .map(|line| line?.parse::<Path>()).collect()
RECURSIVE CollectPaths(_, _, _)
CollectPaths(ls, i, acc) ==
    IF i > Len(ls) THEN Ok(acc)
    ELSE LET path == Path_from_str(ls[i])
         IN  IF path.ok THEN CollectPaths(ls, i + 1, Append(acc, path.val))
             ELSE path

read_input(t) == CollectPaths(lines(t), 1, << >>)

\* main is about to read a text of at most MaxChars characters
InitMain ==
    /\ \E n \in 0..MaxChars : text \in [1..n -> Chars]
    /\ scan = << >>
    /\ pc = "input"
    /\ NoCave

\* let input = input()?; in main: the parsed paths go to solve, an error
\* ends main
ReadInput ==
    /\ pc = "input"
    /\ LET input == read_input(text)
       IN  IF input.ok
           THEN /\ scan' = input.val
                /\ pc' = "from_scan"
           ELSE /\ scan' = scan
                /\ pc' = "error"
    /\ UNCHANGED <<text, rocks, rocks_max_y, sand, floor_y, sand_pos, ret, p1, p2>>

NextMain == ReadInput \/ Next

SpecMain == InitMain /\ [][NextMain]_vars

(***************************************************************************)
(* Properties                                                              *)
(***************************************************************************)
\* the step is inside a pour_sand call
InPour == pc \in {"run_a", "run_b", "falling"}
\* the step is a pour_sand call returning true, returning false
ReturnsTrue == pc = "falling" /\ pc' \in {"run_a", "run_b"}
ReturnsFalse == InPour /\ pc' \in {"with_floor", "done"}

\* C1: on the example scan the open run has settled exactly 24 grains when
\* its first grain is lost, and solve's first count is 24.
C1_ExampleOpenCount ==
    (scan = ExampleScan /\ (pc = "with_floor" \/ floor_y # {})) =>
        /\ p1 = 24
        /\ pc = "with_floor" => (Cardinality(sand) = 24 /\ ret = FALSE)

C1_Witness == scan = ExampleScan /\ pc = "with_floor" /\ ret = FALSE

\* C2: on the example scan the floor is at y = 11 (max rock y 9, plus 2), the
\* floored count is 93, and the floored run ends with sand on the source.
C2_ExampleFlooredCount ==
    /\ (scan = ExampleScan /\ floor_y # {}) => (rocks_max_y = 9 /\ floor_y = {11})
    /\ (scan = ExampleScan /\ pc = "done") =>
           (p2 = 93 /\ Cardinality(sand) = 93 /\ Source \in sand /\ ret = FALSE)

C2_Witness == scan = ExampleScan /\ pc = "done" /\ Source \in sand

\* C3: no cell is both rock and settled sand, whatever the rock set.
C3_RockSandDisjoint == rocks \cap sand = {}

\* C4: a falling grain at (x,y) goes to (x,y+1) if that cell is free, else to
\* (x-1,y+1) if free, else to (x+1,y+1) if free, and only when none is free
\* does it settle, at (x,y) itself; nothing is inserted while it moves.
C4_MovementOrder ==
    [][pc = "falling" =>
         LET down  == translate(sand_pos, 0, 1)
             left  == translate(sand_pos, -1, 1)
             right == translate(sand_pos, 1, 1)
         IN  IF free(down) THEN sand_pos' = down /\ sand' = sand
             ELSE IF free(left) THEN sand_pos' = left /\ sand' = sand
             ELSE IF free(right) THEN sand_pos' = right /\ sand' = sand
             ELSE sand' = sand \cup {sand_pos} /\ ReturnsTrue]_vars

\* C5: a pour_sand call removes no cell from the sand set, so its size never
\* decreases.
C5_SandOnlyGrows ==
    [][InPour => (sand \subseteq sand' /\ Cardinality(sand) <= Cardinality(sand'))]_vars

C5_Witness == pc = "run_b" /\ ret = TRUE /\ Cardinality(sand) >= 3

\* C6: a pour_sand call that returns true grows the sand set by exactly one
\* cell, one that returns false leaves it unchanged, and the open count is
\* the size the sand set has reached at the first false.
C6_OneCellPerSettledGrain ==
    [][/\ ReturnsTrue => Cardinality(sand') = Cardinality(sand) + 1
       /\ ReturnsFalse => sand' = sand
       /\ (ReturnsFalse /\ floor_y = {}) => p1' = Cardinality(sand)]_vars

C8_BlockedSourceCountsZero ==
    (Source \in rocks /\ pc = "done") => (p2 = 0 /\ sand = {})

\* the cells of Points on the segment from a to b (a and b on one row or on
\* one column), both ends included
OnSegment(c, a, b) ==
    \/ /\ a.y = b.y /\ c.y = a.y
       /\ (a.x <= c.x /\ c.x <= b.x) \/ (b.x <= c.x /\ c.x <= a.x)
    \/ /\ a.x = b.x /\ c.x = a.x
       /\ (a.y <= c.y /\ c.y <= b.y) \/ (b.y <= c.y /\ c.y <= a.y)

SegmentUnion(s) ==
    {c \in Points : \E k \in 1..Len(s) : \E i \in 1..(Len(s[k]) - 1) :
                        OnSegment(c, s[k][i], s[k][i + 1])}

SinglePoints(s) == {s[k][1] : k \in {k \in 1..Len(s) : Len(s[k]) = 1}}

Orthogonal(s) ==
    \A k \in 1..Len(s) : \A i \in 1..(Len(s[k]) - 1) :
        s[k][i].x = s[k][i + 1].x \/ s[k][i].y = s[k][i + 1].y

\* C9: a scan with a single-point path (and no diagonal segment) is
\* rasterized without a panic, and that path adds its one point.
C9_SinglePointPath ==
    (pc # "from_scan" /\ Orthogonal(scan) /\ SinglePoints(scan) # {}) =>
        /\ pc # "panic"
        /\ rocks = SegmentUnion(scan) \cup SinglePoints(scan)

ReversedPath(rs) == [i \in 1..Len(rs) |-> rs[Len(rs) + 1 - i]]

\* the scan s with its k-th path reversed
ReversedAt(s, k) == [j \in 1..Len(s) |-> IF j = k THEN ReversedPath(s[j]) ELSE s[j]]

\* C11: for a scan of axis-aligned paths the rock set holds every listed
\* point, a segment gives the same cells from either end, and reversing any
\* one path gives the same rock set.
C11_PointsAndReversal ==
    (pc # "from_scan" /\ Orthogonal(scan)) =>
        /\ UNION {{scan[k][i] : i \in 1..Len(scan[k])} : k \in 1..Len(scan)}
               \subseteq rocks
        /\ \A k \in 1..Len(scan) : \A i \in 1..(Len(scan[k]) - 1) :
               SegmentCells(scan[k][i], scan[k][i + 1]).cells
                   = SegmentCells(scan[k][i + 1], scan[k][i]).cells
        /\ \A k \in 1..Len(scan) : from_scan(ReversedAt(scan, k)).rocks = rocks

\* C12: a scan with a diagonal segment makes from_scan panic: no Cave, no
\* step of solve is possible afterwards, no sand, no floor, no counts.
C12_DiagonalPanics ==
    (pc # "from_scan" /\ ~Orthogonal(scan)) =>
        /\ pc = "panic"
        /\ ~ENABLED Next
        /\ sand = {} /\ floor_y = {} /\ p1 = 0 /\ p2 = 0

\* the diagonal comes after a segment that was rasterized
C12_Witness == pc = "panic" /\ ~Orthogonal(scan) /\ rocks # {}

\* C13: the open run ends: from every state of it, a pour_sand call
\* eventually returns false and solve reaches with_floor.
C13_OpenRunTerminates ==
    (pc = "run_a" /\ floor_y = {}) ~> (pc = "with_floor" /\ ret = FALSE)

\* the open run has ended over a rock right under the source
C13_Witness ==
    /\ pc = "with_floor" /\ ret = FALSE /\ p1 >= 1
    /\ \E c \in rocks : c.x = SourceX /\ c.y > SourceY

\* C14: the open count is at most the floored count.
C14_OpenAtMostFloored == pc = "done" => p1 <= p2

C14_Witness == pc = "done" /\ 0 < p1 /\ p1 < p2

\* C15: in the open run the grain is lost exactly when its next step down
\* would put it below the lowest rock (y > rocks_max_y): the call returns
\* false and inserts nothing; so no grain rests at a row y >= rocks_max_y.
C15_OpenThreshold ==
    [][(pc = "falling" /\ floor_y = {}) =>
         /\ sand_pos.y + 1 > rocks_max_y => (ReturnsFalse /\ sand' = sand)
         /\ sand_pos.y + 1 <= rocks_max_y => ~ReturnsFalse
         /\ \A c \in sand' : c.y < rocks_max_y]_vars

C15_Witness ==
    /\ pc = "with_floor" /\ ret = FALSE
    /\ sand_pos.y = rocks_max_y + 1
    /\ \E c \in sand : c.y = rocks_max_y - 1

\* C16: a pour_sand call made while the source holds sand returns false at
\* once: the grain does not move, and rocks, sand and floor are unchanged.
C16_SourceBlockedReturnsFalse ==
    [][(pc \in {"run_a", "run_b"} /\ Source \in sand) =>
         /\ ReturnsFalse
         /\ ret' = FALSE
         /\ sand_pos' = Source
         /\ rocks' = rocks /\ rocks_max_y' = rocks_max_y
         /\ sand' = sand
         /\ floor_y' = floor_y]_vars

C16_Witness ==
    pc = "done" /\ ret = FALSE /\ sand_pos = Source /\ Source \in sand /\ p2 > p1

\* C17: the floored run ends only by rejection at the source: a floored
\* pour returns false only on entry with sand on the source; no pour returns
\* true once the source holds sand, so the pour that filled the source is the
\* last true one; and the count is the size of the sand set, that grain
\* included.
C17_FlooredEndsAtSource ==
    [][/\ (floor_y # {} /\ ReturnsFalse) => (pc = "run_b" /\ Source \in sand)
       /\ Source \in sand => ~ReturnsTrue
       /\ (Source \notin sand /\ Source \in sand') => ReturnsTrue
       /\ pc' = "done" =>
              (Source \in sand' /\ p2' = Cardinality(sand') /\ p2' >= 1)]_vars

\* the floored run settled grains of its own and was then rejected
C17_Witness ==
    pc = "done" /\ ret = FALSE /\ Source \in sand /\ Source \notin rocks /\ p2 >= p1 + 3

\* C18: once the Cave is built, no step changes rocks or rocks_max_y, and no
\* step of a pour_sand call changes floor_y.
C18_RocksReadOnly ==
    [][pc \notin {"from_scan", "panic"} =>
         /\ rocks' = rocks
         /\ rocks_max_y' = rocks_max_y
         /\ InPour => floor_y' = floor_y]_vars

C18_Witness ==
    /\ pc = "done" /\ floor_y # {} /\ Cardinality(sand) >= 3
    /\ rocks = from_scan(scan).rocks
    /\ rocks_max_y = from_scan(scan).rocks_max_y

\* C20: in the floored run the floor is the row rocks_max_y + 2: no cell of
\* that row is free, and every sand cell lies above it.
C20_FloorRow ==
    floor_y # {} =>
        /\ floor_y = {rocks_max_y + 2}
        /\ \A x \in (SourceX - rocks_max_y - 4)..(SourceX + rocks_max_y + 4) :
               ~free(Pos(x, rocks_max_y + 2))
        /\ \A c \in sand : c.y < rocks_max_y + 2

\* C21: a pour_sand call returns false in exactly two ways: on entry with
\* sand on the source, or in the open run when the grain's next step down
\* passes max_y.  A floored pour returns false only on entry; a grain that
\* leaves the loop otherwise returns true and is in the sand set.
C21_TwoWaysToReturnFalse ==
    [][InPour =>
         /\ ReturnsFalse <=>
                (\/ pc \in {"run_a", "run_b"} /\ Source \in sand
                 \/ pc = "falling" /\ floor_y = {} /\ sand_pos.y + 1 > max_y)
         /\ (floor_y # {} /\ ReturnsFalse) => (pc = "run_b" /\ Source \in sand)
         /\ (floor_y # {} /\ pc = "falling") => (ReturnsTrue \/ pc' = "falling")
         /\ ReturnsTrue => (ret' = TRUE /\ sand' = sand \cup {sand_pos'})
         /\ ReturnsFalse => (ret' = FALSE /\ sand' = sand)]_vars

\* the open run itself ended on the source test
C21_Witness ==
    /\ pc = "with_floor" /\ floor_y = {} /\ ret = FALSE
    /\ sand_pos = Source /\ Source \in sand

\* the cells around the grain and around the source: those free() is asked
\* about, and a margin
FreeWindow ==
    {translate(c, dx, dy) : c \in {sand_pos, Source}, dx \in -2..2, dy \in -1..3}

\* C22: free(pos) is true exactly when pos is neither rock nor sand and, with
\* a floor, pos.y is not the floor's row; with no floor every cell that is
\* neither rock nor sand is free; with a floor the cells below the floor row
\* that are neither rock nor sand are free.
C22_FreeCells ==
    \A pos \in FreeWindow :
        /\ free(pos) <=> (pos \notin rocks /\ pos \notin sand /\ floor_y # {pos.y})
        /\ floor_y = {} => (free(pos) <=> pos \notin rocks \cup sand)
        /\ (floor_y # {} /\ pos.y > max_y /\ pos \notin rocks \cup sand) => free(pos)

\* the floor row stops a falling grain, and a cell under the floor is free
C22_Witness ==
    /\ pc = "falling" /\ floor_y = {sand_pos.y + 1} /\ sand # {}
    /\ ~free(translate(sand_pos, 0, 1))
    /\ translate(sand_pos, 0, 1) \notin rocks \cup sand
    /\ free(translate(sand_pos, 0, 2))

\* a field that reads as an integer: an optional sign, then digits only
IsInteger(f) ==
    LET ds == IF f # << >> /\ f[1] \in {"-", "+"} THEN Tail(f) ELSE f
    IN  ds # << >> /\ \A i \in 1..Len(ds) : IsDigit(ds[i])

\* the texts of the coordinates of t: the parts of its lines between arrows
Coordinates(t) ==
    UNION {{split(lines(t)[k], Arrow)[i] :
                i \in 1..Len(split(lines(t)[k], Arrow))} : k \in 1..Len(lines(t))}

\* the x or the y field of the coordinate c is missing or is no integer
Malformed(c) ==
    LET fields == split(c, ",")
    IN  Len(fields) < 2 \/ ~IsInteger(fields[1]) \/ ~IsInteger(fields[2])

\* C23: a text with a coordinate whose x or y field is missing or is no
\* integer makes read_input fail as a whole: main ends with the error, no
\* path list is kept, no Cave is built and no step of solve follows.  A text
\* without such a coordinate is parsed, one path per line, and no coordinate
\* of these texts reads as zero.
C23_MalformedTextFails ==
    pc # "input" =>
        IF \E c \in Coordinates(text) : Malformed(c)
        THEN /\ pc = "error"
             /\ scan = << >>
             /\ NoCave
             /\ ~ENABLED NextMain
        ELSE /\ pc # "error"
             /\ Len(scan) = Len(lines(text))
             /\ \A k \in 1..Len(scan) : \A i \in 1..Len(scan[k]) :
                    scan[k][i].x # 0 /\ scan[k][i].y # 0

\* a good first line, then a line with a coordinate that has no y
C23_Witness ==
    /\ pc = "error"
    /\ Len(lines(text)) = 2
    /\ Path_from_str(lines(text)[1]).ok
    /\ \E c \in Coordinates(text) : Len(split(c, ",")) < 2

\* C24: the floored count solve returns, poured on top of the open run's
\* sand, is the count of a floored run that starts with no sand on the same
\* rocks: its first p2 calls fill the p2 cells of solve's sand set and the
\* next call returns false.  The first p1 grains of that run rest in the
\* cells the open run filled, in the same order.
C24_FlooredCountAsFromEmpty ==
    /\ pc = "done" =>
           LET fresh == pour_calls({}, FloorFor(rocks_max_y), p2)
           IN  /\ Cardinality(fresh) = p2
               /\ fresh = sand
               /\ ~pour_sand(fresh, FloorFor(rocks_max_y)).ret
    /\ pc \in {"with_floor", "done"} =>
           /\ \A k \in 0..p1 :
                  /\ pour_calls({}, FloorFor(rocks_max_y), k) = pour_calls({}, {}, k)
                  /\ Cardinality(pour_calls({}, {}, k)) = k
           /\ ~pour_sand(pour_calls({}, {}, p1), {}).ret
           /\ pc = "with_floor" => pour_calls({}, {}, p1) = sand

\* both runs settled grains, and the open run's are the first of a floored
\* run from no sand
C24_Witness ==
    /\ pc = "done" /\ p1 >= 2 /\ p2 >= p1 + 2
    /\ pour_calls({}, FloorFor(rocks_max_y), p1) = pour_calls({}, {}, p1)
    /\ pour_calls({}, FloorFor(rocks_max_y), p2) = sand

\* C25: the floored run ends for every rock set, those with all cells above
\* the source included: after finitely many pour_sand calls one returns
\* false and solve is done.
C25_FlooredRunTerminates == (pc = "run_b") ~> (pc = "done")

\* C26 as stated: an iteration of pour_sand's loop that goes on moves the
\* grain one row down and at most one column aside, no iteration goes on once
\* the next row is below max_y, and the call makes at most max_y + 1
\* iterations (the grain has made sand_pos.y of them).
C26_StepsWithinMaxY ==
    [][pc = "falling" =>
         /\ pc' = "falling" =>
                /\ sand_pos'.y = sand_pos.y + 1
                /\ sand_pos'.x - sand_pos.x \in {-1, 0, 1}
         /\ sand_pos.y + 1 > max_y => pc' # "falling"
         /\ sand_pos.y + 1 <= max_y + 1]_vars

\* C26 amended: the same, with at most max_y + 1 iterations when max_y >= 0
\* and one iteration when max_y < 0.
C26_StepsWithinBound ==
    [][pc = "falling" =>
         /\ pc' = "falling" =>
                /\ sand_pos'.y = sand_pos.y + 1
                /\ sand_pos'.x - sand_pos.x \in {-1, 0, 1}
         /\ sand_pos.y + 1 > max_y => pc' # "falling"
         /\ sand_pos.y + 1 <= (IF max_y >= 0 THEN max_y ELSE 0) + 1]_vars

\* a grain that slid aside was lost on its iteration max_y + 1
C26_Witness ==
    /\ pc = "with_floor" /\ ret = FALSE
    /\ rocks_max_y >= 2
    /\ sand_pos.y = rocks_max_y + 1 /\ sand_pos.x # SourceX

\* the three cells a grain at c could step to
Below(c) == {translate(c, -1, 1), translate(c, 0, 1), translate(c, 1, 1)}

\* C27: every settled grain is supported: each of the three cells under a
\* sand cell is rock, sand, or on the floor row.
C27_SettledGrainsSupported ==
    \A c \in sand : \A b \in Below(c) : b \in rocks \/ b \in sand \/ floor_y = {b.y}

\* the cells of row y + 1 that can be stepped to from the cells row of row y
\* and are not rock
NextRow(row) == (UNION {Below(c) : c \in row}) \ rocks

\* the cells of rows y .. fy - 1 reachable from the cells row of row y
RECURSIVE ReachableFrom(_, _, _)
ReachableFrom(row, y, fy) ==
    IF y >= fy \/ row = {} THEN {}
    ELSE row \cup ReachableFrom(NextRow(row), y + 1, fy)

\* the cells above the floor row reachable from the source through cells
\* that are not rock
Reachable == ReachableFrom({Source} \ rocks, SourceY, rocks_max_y + 2)

\* C28: with no rock on the source, the sand set at the end of the floored
\* run is the set of cells reachable from the source by steps down,
\* down-left and down-right through cells that are not rock and lie above
\* the floor row, and the floored count is its size.
C28_FlooredSandIsReachableSet ==
    (pc = "done" /\ Source \notin rocks) =>
        /\ sand = Reachable
        /\ p2 = Cardinality(Reachable)

\* the floored run has ended, and rocks shade a cell of the cone from the
\* source
C28_Witness ==
    /\ pc = "done" /\ Source \notin rocks /\ p2 >= 4
    /\ \E x \in (SourceX - 1)..(SourceX + 1) : \E y \in 2..(rocks_max_y + 1) :
           Pos(x, y) \notin rocks \cup sand

\* C29: every sand cell lies in the cone under the source, y >= 0 and
\* |x - 500| <= y, and no deeper than the last row a grain of the active
\* policy can be left in, so the cells that can hold sand are finitely many.
C29_SandInCone ==
    \A c \in sand :
        /\ c.y >= SourceY
        /\ c.x - SourceX <= c.y - SourceY
        /\ SourceX - c.x <= c.y - SourceY
        /\ c.y <= (IF max_y >= 0 THEN max_y ELSE 0) + 1

\* sand on the edge of the cone, two rows down
C29_Witness ==
    \E c \in sand : c.y >= 2 /\ (c.x = SourceX - c.y \/ c.x = SourceX + c.y)

\* C30: once a pour_sand call has returned false, a further call on the same
\* cave under the same policy returns false and leaves the sand set as it
\* is, and so does the call after it.
C30_SaturationIsStable ==
    [][ReturnsFalse =>
         /\ sand' = sand
         /\ floor_y' = floor_y
         /\ pour_sand(sand', floor_y').ret = FALSE
         /\ pour_sand(sand', floor_y').sand = sand'
         /\ pour_sand(pour_sand(sand', floor_y').sand, floor_y').ret = FALSE]_vars

\* both runs have ended, the open one by a lost grain
C30_Witness ==
    /\ pc = "done" /\ ret = FALSE /\ p1 >= 1 /\ p2 > p1
    /\ pour_sand(sand, {}).ret = FALSE /\ pour_sand(sand, floor_y).ret = FALSE
    /\ Source \in sand

====
